---------------------------- MODULE Spec2Model ----------------------------
(***************************************************************************)
(* The four GUI forms of netbox_acls/forms/models.py, as a state machine   *)
(* over the tables they read and write.  A request is bound to a form,     *)
(* validated (field validation, then the form's clean), and, when valid,   *)
(* saved.                                                                  *)
(***************************************************************************)
EXTENDS Integers, Sequences, FiniteSets, TLC

(***************************************************************************)
(* Bounds of the model.                                                    *)
(***************************************************************************)
MaxACLs == 2
MaxAssignments == 1
\* Stored assignments when two workers create them concurrently.
MaxConcurrentAssignments == 2
MaxRules == 1

(***************************************************************************)
(* The objects of the host application the forms select from.  An object   *)
(* is its model (kind) and its primary key: two objects are equal when     *)
(* both agree, as Django compares model instances.                         *)
(***************************************************************************)
None == [kind |-> "none", pk |-> 0]

DevicePks == {1, 2}
Devices == {[kind |-> "device", pk |-> p] : p \in DevicePks}
VirtualChassisSet == {[kind |-> "virtual_chassis", pk |-> 1]}
VirtualMachines == {[kind |-> "virtual_machine", pk |-> 1]}
Hosts == Devices \cup VirtualChassisSet \cup VirtualMachines

\* One physical interface per device, one VM interface per virtual machine.
Interfaces == {[kind |-> "interface", pk |-> p] : p \in DevicePks}
VMInterfaces == {[kind |-> "vminterface", pk |-> 1]}

\* Interface.objects.get(pk=...).device
InterfaceDevice(i) == [kind |-> "device", pk |-> i.pk]
\* VMInterface.objects.get(pk=...).virtual_machine
VMInterfaceVirtualMachine(i) == [kind |-> "virtual_machine", pk |-> i.pk]

Names == {"acl1", "acl2"}
TYPE_STANDARD == "standard"
TYPE_EXTENDED == "extended"
ACLTypeChoices == {TYPE_STANDARD, TYPE_EXTENDED}
Directions == {"ingress", "egress"}

\* Python truthiness of a cleaned object (a model instance, or None).
Truthy(x) == x # None

\* The key Django files a ValidationError built from a plain string under.
NON_FIELD_ERRORS == "__all__"

\* error_message |= new : the keys of new replace those of error_message.
DictMerge(error_message, new) == new @@ error_message

NoErrors == [k \in {} |-> <<>>]

(***************************************************************************)
(* State: the tables (a row's primary key is its index), and one request   *)
(* record per worker.                                                      *)
(***************************************************************************)
VARIABLES acls, assignments, aclstandardrules, aclextendedrules, reqs

vars == <<acls, assignments, aclstandardrules, aclextendedrules, reqs>>

Slots == {1, 2}

Idle == [form |-> "none", phase |-> "idle", instance |-> 0,
         data |-> [none |-> TRUE], field_errors |-> {}, raised |-> NoErrors]

Pks(table) == 1 .. Len(table)

(***************************************************************************)
(* AccessListForm                                                          *)
(***************************************************************************)
ERR_ONE_HOST == "Access Lists must be assigned to one host (either a device, virtual chassis or virtual machine) at a time."
ERR_NO_HOST == "Access Lists must be assigned to a device, virtual chassis or virtual machine."
ERR_SAME_ACL_NAME == "An ACL with this name is already associated to this host."
ERR_TYPE_CHANGE == "This ACL has ACL rules associated, CANNOT change ACL type."

\* The submissions of the form: "" is a blank required field.
AccessListData ==
    [name : Names \cup {""},
     type : ACLTypeChoices \cup {""},
     device : Devices \cup {None},
     virtual_chassis : VirtualChassisSet \cup {None},
     virtual_machine : VirtualMachines \cup {None}]

\* Field validation (super().clean()): name and type are required.
AccessListFieldErrors(data) ==
    {f \in {"name", "type"} : data[f] = ""}

\* __init__: the initial values of the form, from the instance being edited.
AccessListInitial(instance) ==
    IF instance = 0
    THEN [name |-> "", type |-> "", device |-> None,
          virtual_chassis |-> None, virtual_machine |-> None]
    ELSE LET obj == acls[instance].assigned_object IN
         [name |-> acls[instance].name,
          type |-> acls[instance].type,
          device |-> IF obj.kind = "device" THEN obj ELSE None,
          virtual_chassis |-> IF obj.kind = "virtual_chassis" THEN obj ELSE None,
          virtual_machine |-> IF obj.kind = "virtual_machine" THEN obj ELSE None]

\* The mutant notices a changed name only.
AccessListChangedDataNameOnly(instance, data) ==
    {f \in {"name"} : data[f] # AccessListInitial(instance)[f]}

\* self.changed_data: the fields whose submitted value differs from the initial one.
AccessListChangedData(instance, data) ==
    {f \in DOMAIN data : data[f] # AccessListInitial(instance)[f]}

\* The mutant drops the last pair of the test.
MoreThanOneHostPairMissing(data) ==
    \/ Truthy(data.device) /\ Truthy(data.virtual_chassis)
    \/ Truthy(data.device) /\ Truthy(data.virtual_machine)

MoreThanOneHost(data) ==
    \/ Truthy(data.device) /\ Truthy(data.virtual_chassis)
    \/ Truthy(data.device) /\ Truthy(data.virtual_machine)
    \/ Truthy(data.virtual_chassis) /\ Truthy(data.virtual_machine)

\* The mutant loses the last "not" of the test.
NoHostMissingNot(data) ==
    ~Truthy(data.device) /\ ~Truthy(data.virtual_chassis)
        /\ Truthy(data.virtual_machine)

NoHost(data) ==
    ~Truthy(data.device) /\ ~Truthy(data.virtual_chassis)
        /\ ~Truthy(data.virtual_machine)

AccessListHostType(data) ==
    IF Truthy(data.device) THEN "device"
    ELSE IF Truthy(data.virtual_machine) THEN "virtual_machine"
    ELSE "virtual_chassis"

\* The mutant looks the name up on any host.
ExistingAclsAnyHost(data) ==
    \E pk \in Pks(acls) : acls[pk].name = data.name

\* AccessList.objects.filter(name=name, <host_type>=<host>).exists()
ExistingAcls(data) ==
    \E pk \in Pks(acls) :
        /\ acls[pk].name = data.name
        /\ acls[pk].assigned_object = data[AccessListHostType(data)]

\* The mutant compares with the type the instance has, not with its rules.
TypeChangeBlockedOnAnyChange(instance, data) ==
    /\ instance # 0
    /\ data.type \in ACLTypeChoices
    /\ data.type # acls[instance].type

\* self.instance.pk and rules of the other type exist.
TypeChangeBlocked(instance, data) ==
    /\ instance # 0
    /\ \/ /\ data.type = TYPE_EXTENDED
          /\ \E k \in Pks(aclstandardrules) :
                aclstandardrules[k].access_list = instance
       \/ /\ data.type = TYPE_STANDARD
          /\ \E k \in Pks(aclextendedrules) :
                aclextendedrules[k].access_list = instance

\* The error map clean raises; NoErrors when it returns cleaned_data.
AccessListClean(instance, data) ==
    IF "name" \in AccessListFieldErrors(data) THEN NoErrors
    ELSE IF MoreThanOneHost(data) THEN NON_FIELD_ERRORS :> <<ERR_ONE_HOST>>
    ELSE IF NoHost(data) THEN NON_FIELD_ERRORS :> <<ERR_NO_HOST>>
    ELSE
      LET host_type == AccessListHostType(data)
          e1 == IF /\ \/ "name" \in AccessListChangedData(instance, data)
                      \/ host_type \in AccessListChangedData(instance, data)
                   /\ ExistingAcls(data)
                THEN DictMerge(NoErrors,
                               (host_type :> <<ERR_SAME_ACL_NAME>>)
                                 @@ ("name" :> <<ERR_SAME_ACL_NAME>>))
                ELSE NoErrors
          e2 == IF TypeChangeBlocked(instance, data)
                THEN ("type" :> <<ERR_TYPE_CHANGE>>) @@ e1
                ELSE e1
      IN e2

\* The mutant takes the device alone.
AccessListAssignedObjectDeviceOnly(data) ==
    data.device

\* save: device or virtual_chassis or virtual_machine.
AccessListAssignedObject(data) ==
    IF Truthy(data.device) THEN data.device
    ELSE IF Truthy(data.virtual_chassis) THEN data.virtual_chassis
    ELSE data.virtual_machine

\* The row save writes.
AccessListRow(data) ==
    [name |-> data.name, type |-> data.type,
     assigned_object |-> AccessListAssignedObject(data)]

\* The table after save, and the primary key of the row written.
\* The mutant is a save that looks the (name, host) pair up again and writes
\* nothing when a stored AccessList has it.
AccessListSavedUnlessStored(instance, data) ==
    IF \E pk \in Pks(acls) :
          /\ acls[pk].name = data.name
          /\ acls[pk].assigned_object = AccessListAssignedObject(data)
    THEN acls
    ELSE IF instance = 0 THEN Append(acls, AccessListRow(data))
    ELSE [acls EXCEPT ![instance] = AccessListRow(data)]

AccessListSavedPk(instance) ==
    IF instance = 0 THEN Len(acls) + 1 ELSE instance

AccessListSaved(instance, data) ==
    IF instance = 0 THEN Append(acls, AccessListRow(data))
    ELSE [acls EXCEPT ![instance] = AccessListRow(data)]

\* is_valid(): no field failed and clean raised nothing.
IsValid(field_errors, raised) ==
    field_errors = {} /\ DOMAIN raised = {}

\* A worker binds a request to the form and validates it.
\* form.is_valid() of a form bound to instance (0 for a create) and data.
AccessListFormCleanOf(r, instance, data) ==
    /\ reqs[r].phase = "idle"
    /\ LET fe == AccessListFieldErrors(data)
           raised == AccessListClean(instance, data)
       IN \* a create that would be saved needs room in the table
          /\ (instance = 0 /\ IsValid(fe, raised)) => Len(acls) < MaxACLs
          /\ reqs' = [reqs EXCEPT ![r] =
               [form |-> "AccessListForm",
                phase |-> IF IsValid(fe, raised) THEN "valid" ELSE "invalid",
                instance |-> instance, data |-> data,
                field_errors |-> fe, raised |-> raised]]
    /\ UNCHANGED <<acls, assignments, aclstandardrules, aclextendedrules>>

AccessListFormClean(r) ==
    \E instance \in {0} \cup Pks(acls), data \in AccessListData :
        AccessListFormCleanOf(r, instance, data)

AccessListFormSave(r) ==
    /\ reqs[r].form = "AccessListForm"
    /\ reqs[r].phase = "valid"
    /\ reqs[r].instance = 0 => Len(acls) < MaxACLs
    /\ acls' = AccessListSaved(reqs[r].instance, reqs[r].data)
    /\ reqs' = [reqs EXCEPT ![r].phase = "saved",
                            ![r].instance = AccessListSavedPk(reqs[r].instance)]
    /\ UNCHANGED <<assignments, aclstandardrules, aclextendedrules>>

\* A whole request of the form, from binding to the response: validation,
\* and the save of a valid submission.
AccessListFormSubmit(r) ==
    /\ reqs[r].phase = "idle"
    /\ \E instance \in {0} \cup Pks(acls), data \in AccessListData :
         /\ instance = 0 => Len(acls) < MaxACLs
         /\ IsValid(AccessListFieldErrors(data), AccessListClean(instance, data))
         /\ acls' = AccessListSaved(instance, data)
    /\ UNCHANGED <<assignments, aclstandardrules, aclextendedrules, reqs>>

(***************************************************************************)
(* ACLInterfaceAssignmentForm                                              *)
(***************************************************************************)
ERR_TOO_MANY_INTERFACES == "Access Lists must be assigned to one type of interface at a time (VM interface or physical interface)"
ERR_NO_INTERFACE == "An Access List assignment but specify an Interface or VM Interface."
ERR_ACL_NOT_ASSIGNED_TO_HOST == "Access List not present on selected host."
ERR_DUPLICATE_ENTRY == "An ACL with this name is already associated to this interface & direction."
ERR_INTERFACE_ALREADY_ASSIGNED == "Interfaces can only have 1 Access List assigned in each direction."

\* The submissions: access_list 0 is the required field left blank.
ACLInterfaceAssignmentData ==
    [access_list : {0} \cup Pks(acls),
     direction : Directions,
     interface : Interfaces \cup {None},
     vminterface : VMInterfaces \cup {None}]

ACLInterfaceAssignmentFieldErrors(data) ==
    {f \in {"access_list"} : data[f] = 0}

\* The mutant never takes the first branch.
TooManyInterfacesNever(data) == FALSE

TooManyInterfaces(data) ==
    Truthy(data.interface) /\ Truthy(data.vminterface)

NoInterface(data) ==
    ~(Truthy(data.interface) \/ Truthy(data.vminterface))

\* The locals of the else branch of clean.
AssignedObject(data) ==
    IF Truthy(data.interface) THEN data.interface ELSE data.vminterface

AssignedObjectType(data) ==
    IF Truthy(data.interface) THEN "interface" ELSE "vminterface"

AssignmentHostType(data) ==
    IF Truthy(data.interface) THEN "device" ELSE "virtual_machine"

AssignmentHost(data) ==
    IF Truthy(data.interface) THEN InterfaceDevice(data.interface)
    ELSE VMInterfaceVirtualMachine(data.vminterface)

\* AccessList.objects.get(pk=access_list.pk).assigned_object
AccessListHost(data) == acls[data.access_list].assigned_object

HostMismatch(data) ==
    AccessListHost(data) # AssignmentHost(data)

\* The mutant leaves the access_list out of the filter.
DuplicateEntryAnyAccessList(data) ==
    \E pk \in Pks(assignments) :
        /\ assignments[pk].assigned_object = AssignedObject(data)
        /\ assignments[pk].direction = data.direction

\* ACLInterfaceAssignment.objects.filter(access_list, assigned_object_id,
\* assigned_object_type, direction).exists()
DuplicateEntry(data) ==
    \E pk \in Pks(assignments) :
        /\ assignments[pk].access_list = data.access_list
        /\ assignments[pk].assigned_object = AssignedObject(data)
        /\ assignments[pk].direction = data.direction

\* The mutant keeps the access_list of the duplicate lookup in the filter.
InterfaceAlreadyAssignedSameACL(data) ==
    \E pk \in Pks(assignments) :
        /\ assignments[pk].access_list = data.access_list
        /\ assignments[pk].assigned_object = AssignedObject(data)
        /\ assignments[pk].direction = data.direction

\* ACLInterfaceAssignment.objects.filter(assigned_object_id,
\* assigned_object_type, direction).exists()
InterfaceAlreadyAssigned(data) ==
    \E pk \in Pks(assignments) :
        /\ assignments[pk].assigned_object = AssignedObject(data)
        /\ assignments[pk].direction = data.direction

\* access_list.pk on a blank access_list: clean ends in an AttributeError.
ACLInterfaceAssignmentCleanCrashes(data) ==
    /\ ~TooManyInterfaces(data)
    /\ ~NoInterface(data)
    /\ data.access_list = 0

\* The error map clean raises; NoErrors when it returns cleaned_data.
ACLInterfaceAssignmentClean(data) ==
    IF TooManyInterfaces(data)
    THEN DictMerge(NoErrors,
                   ("interface" :> <<ERR_TOO_MANY_INTERFACES>>)
                     @@ ("vminterface" :> <<ERR_TOO_MANY_INTERFACES>>))
    ELSE IF NoInterface(data)
    THEN DictMerge(NoErrors,
                   ("interface" :> <<ERR_NO_INTERFACE>>)
                     @@ ("vminterface" :> <<ERR_NO_INTERFACE>>))
    ELSE
      LET assigned_object_type == AssignedObjectType(data)
          host_type == AssignmentHostType(data)
          e1 == IF HostMismatch(data)
                THEN DictMerge(NoErrors,
                       ("access_list" :> <<ERR_ACL_NOT_ASSIGNED_TO_HOST>>)
                         @@ (assigned_object_type :> <<ERR_ACL_NOT_ASSIGNED_TO_HOST>>)
                         @@ (host_type :> <<ERR_ACL_NOT_ASSIGNED_TO_HOST>>))
                ELSE NoErrors
          e2 == IF DuplicateEntry(data)
                THEN DictMerge(e1,
                       ("access_list" :> <<ERR_DUPLICATE_ENTRY>>)
                         @@ ("direction" :> <<ERR_DUPLICATE_ENTRY>>)
                         @@ (assigned_object_type :> <<ERR_DUPLICATE_ENTRY>>))
                ELSE e1
          e3 == IF InterfaceAlreadyAssigned(data)
                THEN DictMerge(e2,
                       ("direction" :> <<ERR_INTERFACE_ALREADY_ASSIGNED>>)
                         @@ (assigned_object_type :> <<ERR_INTERFACE_ALREADY_ASSIGNED>>))
                ELSE e2
      IN e3

\* save: interface or vminterface.
ACLInterfaceAssignmentRow(data) ==
    [access_list |-> data.access_list, direction |-> data.direction,
     assigned_object |-> AssignedObject(data)]

ACLInterfaceAssignmentSaved(instance, data) ==
    IF instance = 0 THEN Append(assignments, ACLInterfaceAssignmentRow(data))
    ELSE [assignments EXCEPT ![instance] = ACLInterfaceAssignmentRow(data)]

\* form.is_valid() of a form bound to instance (0 for a create) and data, in
\* a table capped at max rows.
ACLInterfaceAssignmentFormCleanOf(r, instance, data, max) ==
    /\ reqs[r].phase = "idle"
    /\ LET fe == ACLInterfaceAssignmentFieldErrors(data)
           crashed == ACLInterfaceAssignmentCleanCrashes(data)
           raised == IF crashed THEN NoErrors
                     ELSE ACLInterfaceAssignmentClean(data)
       IN \* a create that would be saved needs room in the table
          /\ (instance = 0 /\ ~crashed /\ IsValid(fe, raised))
                => Len(assignments) < max
          /\ reqs' = [reqs EXCEPT ![r] =
               [form |-> "ACLInterfaceAssignmentForm",
                phase |-> IF crashed THEN "error"
                          ELSE IF IsValid(fe, raised) THEN "valid"
                          ELSE "invalid",
                instance |-> instance, data |-> data,
                field_errors |-> fe, raised |-> raised]]
    /\ UNCHANGED <<acls, assignments, aclstandardrules, aclextendedrules>>

ACLInterfaceAssignmentFormClean(r) ==
    \E instance \in {0} \cup Pks(assignments),
       data \in ACLInterfaceAssignmentData :
        ACLInterfaceAssignmentFormCleanOf(r, instance, data, MaxAssignments)

\* form.save() of a valid form, in a table capped at max rows.
ACLInterfaceAssignmentFormSaveWithin(r, max) ==
    /\ reqs[r].form = "ACLInterfaceAssignmentForm"
    /\ reqs[r].phase = "valid"
    /\ reqs[r].instance = 0 => Len(assignments) < max
    /\ assignments' = ACLInterfaceAssignmentSaved(reqs[r].instance, reqs[r].data)
    /\ reqs' = [reqs EXCEPT ![r].phase = "saved",
                            ![r].instance = IF reqs[r].instance = 0
                                            THEN Len(assignments) + 1
                                            ELSE reqs[r].instance]
    /\ UNCHANGED <<acls, aclstandardrules, aclextendedrules>>

ACLInterfaceAssignmentFormSave(r) ==
    ACLInterfaceAssignmentFormSaveWithin(r, MaxAssignments)

\* The response is sent: the worker is free for the next request.
Respond(r) ==
    /\ reqs[r].phase \in {"invalid", "saved", "error"}
    /\ reqs' = [reqs EXCEPT ![r] = Idle]
    /\ UNCHANGED <<acls, assignments, aclstandardrules, aclextendedrules>>

(***************************************************************************)
(* ACLStandardRuleForm and ACLExtendedRuleForm                             *)
(***************************************************************************)
\* The three messages imported from .constants.
ERROR_MESSAGE_NO_REMARK == "Action is set to remark, you MUST add a remark."
ERROR_MESSAGE_ACTION_REMARK_SOURCE_PREFIX_SET == "Action is set to remark, Source Prefix CANNOT be set."
ERROR_MESSAGE_REMARK_WITHOUT_ACTION_REMARK == "CANNOT set remark unless action is set to remark."
ERR_SOURCE_PORTS == "Action is set to remark, Source Ports CANNOT be set."
ERR_DESTINATION_PREFIX == "Action is set to remark, Destination Prefix CANNOT be set."
ERR_DESTINATION_PORTS == "Action is set to remark, Destination Ports CANNOT be set."
ERR_PROTOCOL == "Action is set to remark, Protocol CANNOT be set."

Actions == {"permit", "deny", "remark"}

\* The submissions: "" is a field left empty.
ACLStandardRuleData ==
    [access_list : Pks(acls),
     action : Actions \cup {""},
     remark : {"", "text"},
     source_prefix : {"", "10.0.0.0/8"}]

ACLExtendedRuleData ==
    [access_list : Pks(acls),
     action : Actions \cup {""},
     remark : {"", "text"},
     source_prefix : {"", "10.0.0.0/8"},
     source_ports : {"", "1024"},
     destination_prefix : {"", "10.1.0.0/16"},
     destination_ports : {"", "443"},
     protocol : {"", "tcp"}]

\* The match fields of the extended form, in the order clean tests them.
ExtendedMatchFields ==
    <<"source_prefix", "source_ports", "destination_prefix",
      "destination_ports", "protocol">>

\* Field validation: action is required.
RuleFieldErrors(data) ==
    {f \in {"action"} : data[f] = ""}

RuleMatchMessage(f) ==
    CASE f = "source_prefix" -> ERROR_MESSAGE_ACTION_REMARK_SOURCE_PREFIX_SET
      [] f = "source_ports" -> ERR_SOURCE_PORTS
      [] f = "destination_prefix" -> ERR_DESTINATION_PREFIX
      [] f = "destination_ports" -> ERR_DESTINATION_PORTS
      [] f = "protocol" -> ERR_PROTOCOL

\* The mutant tests the destination ports twice and never the protocol.
ExtractedFromClean20NoProtocol(data, error_message) ==
    LET e1 == IF data.remark = ""
              THEN ("remark" :> <<ERROR_MESSAGE_NO_REMARK>>) @@ error_message
              ELSE error_message
        set == {f \in {"source_prefix", "source_ports", "destination_prefix",
                       "destination_ports"} : data[f] # ""}
    IN [f \in set |-> <<RuleMatchMessage(f)>>] @@ e1

\* _extracted_from_clean_20: the checks under action = remark.
ExtractedFromClean20(data, error_message) ==
    LET e1 == IF data.remark = ""
              THEN ("remark" :> <<ERROR_MESSAGE_NO_REMARK>>) @@ error_message
              ELSE error_message
        set == {ExtendedMatchFields[i] : i \in
                  {j \in DOMAIN ExtendedMatchFields :
                      data[ExtendedMatchFields[j]] # ""}}
    IN [f \in set |-> <<RuleMatchMessage(f)>>] @@ e1

\* ACLStandardRuleForm.clean: the error map it raises.
ACLStandardRuleClean(data) ==
    IF data.action = "remark"
    THEN LET e1 == IF data.remark = ""
                   THEN "remark" :> <<ERROR_MESSAGE_NO_REMARK>>
                   ELSE NoErrors
         IN IF data.source_prefix # ""
            THEN ("source_prefix" :>
                    <<ERROR_MESSAGE_ACTION_REMARK_SOURCE_PREFIX_SET>>) @@ e1
            ELSE e1
    ELSE IF data.remark # ""
    THEN "remark" :> <<ERROR_MESSAGE_REMARK_WITHOUT_ACTION_REMARK>>
    ELSE NoErrors

\* ACLExtendedRuleForm.clean: the error map it raises.
ACLExtendedRuleClean(data) ==
    IF data.action = "remark"
    THEN ExtractedFromClean20(data, NoErrors)
    ELSE IF data.remark # ""
    THEN "remark" :> <<ERROR_MESSAGE_REMARK_WITHOUT_ACTION_REMARK>>
    ELSE NoErrors

\* The rule tables keep the column the forms read back: the rule's AccessList.
RuleRow(data) == [access_list |-> data.access_list]

ACLStandardRuleFormClean(r) ==
    /\ reqs[r].phase = "idle"
    /\ \E data \in ACLStandardRuleData :
         LET fe == RuleFieldErrors(data)
             raised == ACLStandardRuleClean(data)
         IN \* a rule that would be saved needs room in the table
            /\ IsValid(fe, raised) => Len(aclstandardrules) < MaxRules
            /\ reqs' = [reqs EXCEPT ![r] =
                 [form |-> "ACLStandardRuleForm",
                  phase |-> IF IsValid(fe, raised) THEN "valid" ELSE "invalid",
                  instance |-> 0, data |-> data,
                  field_errors |-> fe, raised |-> raised]]
    /\ UNCHANGED <<acls, assignments, aclstandardrules, aclextendedrules>>

ACLStandardRuleFormSave(r) ==
    /\ reqs[r].form = "ACLStandardRuleForm"
    /\ reqs[r].phase = "valid"
    /\ Len(aclstandardrules) < MaxRules
    /\ aclstandardrules' = Append(aclstandardrules, RuleRow(reqs[r].data))
    /\ reqs' = [reqs EXCEPT ![r].phase = "saved",
                            ![r].instance = Len(aclstandardrules) + 1]
    /\ UNCHANGED <<acls, assignments, aclextendedrules>>

ACLExtendedRuleFormClean(r) ==
    /\ reqs[r].phase = "idle"
    /\ \E data \in ACLExtendedRuleData :
         LET fe == RuleFieldErrors(data)
             raised == ACLExtendedRuleClean(data)
         IN \* a rule that would be saved needs room in the table
            /\ IsValid(fe, raised) => Len(aclextendedrules) < MaxRules
            /\ reqs' = [reqs EXCEPT ![r] =
                 [form |-> "ACLExtendedRuleForm",
                  phase |-> IF IsValid(fe, raised) THEN "valid" ELSE "invalid",
                  instance |-> 0, data |-> data,
                  field_errors |-> fe, raised |-> raised]]
    /\ UNCHANGED <<acls, assignments, aclstandardrules, aclextendedrules>>

ACLExtendedRuleFormSave(r) ==
    /\ reqs[r].form = "ACLExtendedRuleForm"
    /\ reqs[r].phase = "valid"
    /\ Len(aclextendedrules) < MaxRules
    /\ aclextendedrules' = Append(aclextendedrules, RuleRow(reqs[r].data))
    /\ reqs' = [reqs EXCEPT ![r].phase = "saved",
                            ![r].instance = Len(aclextendedrules) + 1]
    /\ UNCHANGED <<acls, assignments, aclstandardrules>>

\* A whole request of a rule form, from binding to the response: validation,
\* and the save of a valid rule.
ACLStandardRuleFormSubmit(r) ==
    /\ reqs[r].phase = "idle"
    /\ Len(aclstandardrules) < MaxRules
    /\ \E data \in ACLStandardRuleData :
         /\ IsValid(RuleFieldErrors(data), ACLStandardRuleClean(data))
         /\ aclstandardrules' = Append(aclstandardrules, RuleRow(data))
    /\ UNCHANGED <<acls, assignments, aclextendedrules, reqs>>

ACLExtendedRuleFormSubmit(r) ==
    /\ reqs[r].phase = "idle"
    /\ Len(aclextendedrules) < MaxRules
    /\ \E data \in ACLExtendedRuleData :
         /\ IsValid(RuleFieldErrors(data), ACLExtendedRuleClean(data))
         /\ aclextendedrules' = Append(aclextendedrules, RuleRow(data))
    /\ UNCHANGED <<acls, assignments, aclstandardrules, reqs>>

Init ==
    /\ acls = <<>>
    /\ assignments = <<>>
    /\ aclstandardrules = <<>>
    /\ aclextendedrules = <<>>
    /\ reqs = [r \in Slots |-> Idle]

Next ==
    \/ AccessListFormClean(1)
    \/ AccessListFormSave(1)
    \/ Respond(1)
    \/ ACLStandardRuleFormSubmit(1)
    \/ ACLExtendedRuleFormSubmit(1)

Spec == Init /\ [][Next]_vars

\* The interface assignment form, with whole requests of the AccessList form.
AssignmentNext ==
    \/ ACLInterfaceAssignmentFormClean(1)
    \/ ACLInterfaceAssignmentFormSave(1)
    \/ Respond(1)
    \/ AccessListFormSubmit(1)

AssignmentSpec == Init /\ [][AssignmentNext]_vars

\* The rule forms on their own, over one AccessList of each type.
RuleInit ==
    /\ acls = << [name |-> "acl1", type |-> TYPE_STANDARD,
                  assigned_object |-> [kind |-> "device", pk |-> 1]],
                 [name |-> "acl2", type |-> TYPE_EXTENDED,
                  assigned_object |-> [kind |-> "device", pk |-> 1]] >>
    /\ assignments = <<>>
    /\ aclstandardrules = <<>>
    /\ aclextendedrules = <<>>
    /\ reqs = [r \in Slots |-> Idle]

RuleNext ==
    \/ ACLStandardRuleFormClean(1)
    \/ ACLStandardRuleFormSave(1)
    \/ ACLExtendedRuleFormClean(1)
    \/ ACLExtendedRuleFormSave(1)
    \/ Respond(1)

RuleSpec == RuleInit /\ [][RuleNext]_vars

(***************************************************************************)
(* Two workers: the requests of the two slots interleave, so both may run  *)
(* clean before either runs save.  The submissions are creates of the two  *)
(* forms with every required field filled in.                              *)
(***************************************************************************)
ConcurrentAccessListData ==
    {data \in AccessListData :
        /\ data.name \in Names
        /\ data.type = TYPE_STANDARD
        /\ data.device \in Devices
        /\ data.virtual_chassis = None
        /\ data.virtual_machine = None}

ConcurrentAssignmentData ==
    {data \in ACLInterfaceAssignmentData :
        /\ data.access_list # 0
        /\ data.interface \in Interfaces
        /\ data.vminterface = None}

AccessListFormCreate(r) ==
    \E data \in ConcurrentAccessListData : AccessListFormCleanOf(r, 0, data)

ACLInterfaceAssignmentFormCreate(r) ==
    \E data \in ConcurrentAssignmentData :
        ACLInterfaceAssignmentFormCleanOf(r, 0, data, MaxConcurrentAssignments)

ACLInterfaceAssignmentFormCreateSave(r) ==
    ACLInterfaceAssignmentFormSaveWithin(r, MaxConcurrentAssignments)

ConcurrentNext ==
    \/ AccessListFormCreate(1)
    \/ AccessListFormCreate(2)
    \/ AccessListFormSave(1)
    \/ AccessListFormSave(2)
    \/ ACLInterfaceAssignmentFormCreate(1)
    \/ ACLInterfaceAssignmentFormCreate(2)
    \/ ACLInterfaceAssignmentFormCreateSave(1)
    \/ ACLInterfaceAssignmentFormCreateSave(2)
    \/ Respond(1)
    \/ Respond(2)

ConcurrentSpec == Init /\ [][ConcurrentNext]_vars

(***************************************************************************)
(* Properties.  A request whose phase is "valid" or "invalid" has been     *)
(* through clean and not through save: when requests are handled one at a  *)
(* time the tables are still the ones clean read.                          *)
(***************************************************************************)
Cleaned(r, form) ==
    reqs[r].form = form /\ reqs[r].phase \in {"valid", "invalid"}

HostFields == {"device", "virtual_chassis", "virtual_machine"}

HostFieldsSet(data) == {f \in HostFields : data[f] # None}

\* The stored AccessLists with the name and the host of the submission.
StoredMatches(data) ==
    {pk \in Pks(acls) :
        /\ acls[pk].name = data.name
        /\ \E f \in HostFieldsSet(data) : acls[pk].assigned_object = data[f]}

\* The fields of the raised error map that carry the message.
KeysWith(raised, message) ==
    {k \in DOMAIN raised : raised[k] = <<message>>}

\* C1, as stated: a submission with two or three host fields set fails with
\* the host-conflict message on every host field that was set.
C1_HostConflictOnEverySetField ==
    \A r \in Slots :
        (Cleaned(r, "AccessListForm")
           /\ Cardinality(HostFieldsSet(reqs[r].data)) >= 2)
        => /\ DOMAIN reqs[r].raised # {}
           /\ HostFieldsSet(reqs[r].data)
                \subseteq KeysWith(reqs[r].raised, ERR_ONE_HOST)

\* C1, amended: when the name passed field validation, a submission with two
\* or three host fields set fails with the host-conflict message as the one
\* form-wide (non-field) error, and no host field is keyed; when the name
\* failed field validation clean returns without raising, and the form is
\* invalid by the name error alone.
C1_HostConflictIsFormWide ==
    \A r \in Slots :
        (Cleaned(r, "AccessListForm")
           /\ Cardinality(HostFieldsSet(reqs[r].data)) >= 2)
        => /\ reqs[r].phase = "invalid"
           /\ IF reqs[r].data.name = ""
              THEN reqs[r].raised = NoErrors
              ELSE reqs[r].raised = (NON_FIELD_ERRORS :> <<ERR_ONE_HOST>>)

C1_Witness ==
    \E r \in Slots :
        /\ Cleaned(r, "AccessListForm")
        /\ HostFieldsSet(reqs[r].data) = {"virtual_chassis", "virtual_machine"}
        /\ reqs[r].data.name # ""
        /\ NON_FIELD_ERRORS \in DOMAIN reqs[r].raised

\* C2, as stated: a submission with no host field set fails with the
\* must-be-assigned error, whether or not its name passed field validation.
C2_NoHostAlwaysRaises ==
    \A r \in Slots :
        (Cleaned(r, "AccessListForm") /\ HostFieldsSet(reqs[r].data) = {})
        => KeysWith(reqs[r].raised, ERR_NO_HOST) # {}

\* C2, amended: a submission with no host field set whose name passed field
\* validation fails with the must-be-assigned message as the one form-wide
\* error; when the name failed field validation clean returns without
\* raising, and the form is invalid by the name error alone.
C2_NoHostRaisesWhenNameValid ==
    \A r \in Slots :
        (Cleaned(r, "AccessListForm") /\ HostFieldsSet(reqs[r].data) = {})
        => /\ reqs[r].phase = "invalid"
           /\ IF reqs[r].data.name = ""
              THEN reqs[r].raised = NoErrors
              ELSE reqs[r].raised = (NON_FIELD_ERRORS :> <<ERR_NO_HOST>>)

C2_Witness ==
    \E r \in Slots :
        /\ Cleaned(r, "AccessListForm")
        /\ HostFieldsSet(reqs[r].data) = {}
        /\ reqs[r].data.name # ""
        /\ reqs[r].instance # 0
        /\ KeysWith(reqs[r].raised, ERR_NO_HOST) = {NON_FIELD_ERRORS}

\* C3, as stated: with exactly one host set, a (name, host) pair that matches
\* a stored AccessList gets the duplicate error on name and on the host
\* field, and a pair that matches none gets no duplicate error.
C3_DuplicateWheneverStored ==
    \A r \in Slots :
        (Cleaned(r, "AccessListForm")
           /\ Cardinality(HostFieldsSet(reqs[r].data)) = 1)
        => IF StoredMatches(reqs[r].data) # {}
           THEN KeysWith(reqs[r].raised, ERR_SAME_ACL_NAME)
                  = {"name"} \cup HostFieldsSet(reqs[r].data)
           ELSE KeysWith(reqs[r].raised, ERR_SAME_ACL_NAME) = {}

\* Name or host of the submission differ from the form's initial values (a
\* create starts from blank initial values).
NameOrHostChanged(instance, data) ==
    \/ instance = 0
    \/ data.name # acls[instance].name
    \/ \E f \in HostFieldsSet(data) : data[f] # acls[instance].assigned_object

\* C3, amended: with exactly one host set, a (name, host) pair that matches a
\* stored AccessList gets the duplicate error on name and on the host field
\* when the submission is a create or an edit that changes the name or the
\* host; an edit that keeps both gets no duplicate error although the pair
\* is stored (it is the edited row's own); a pair that matches no stored
\* AccessList gets no duplicate error.
C3_DuplicateWhenNameOrHostChanged ==
    \A r \in Slots :
        (Cleaned(r, "AccessListForm")
           /\ Cardinality(HostFieldsSet(reqs[r].data)) = 1)
        => IF /\ StoredMatches(reqs[r].data) # {}
              /\ NameOrHostChanged(reqs[r].instance, reqs[r].data)
           THEN /\ KeysWith(reqs[r].raised, ERR_SAME_ACL_NAME)
                     = {"name"} \cup HostFieldsSet(reqs[r].data)
                /\ reqs[r].phase = "invalid"
           ELSE KeysWith(reqs[r].raised, ERR_SAME_ACL_NAME) = {}

\* An edit that moves an AccessList onto the name and host of another one.
C3_Witness ==
    \E r \in Slots :
        /\ Cleaned(r, "AccessListForm")
        /\ reqs[r].instance # 0
        /\ HostFieldsSet(reqs[r].data) = {"virtual_machine"}
        /\ StoredMatches(reqs[r].data) # {}
        /\ reqs[r].instance \notin StoredMatches(reqs[r].data)
        /\ KeysWith(reqs[r].raised, ERR_SAME_ACL_NAME)
             = {"name", "virtual_machine"}

\* An edit that changes the type of the stored AccessList.
TypeChanges(r) ==
    /\ Cleaned(r, "AccessListForm")
    /\ reqs[r].instance # 0
    /\ reqs[r].data.type \in ACLTypeChoices
    /\ reqs[r].data.type # acls[reqs[r].instance].type

StandardRulesOf(pk) ==
    {k \in Pks(aclstandardrules) : aclstandardrules[k].access_list = pk}

ExtendedRulesOf(pk) ==
    {k \in Pks(aclextendedrules) : aclextendedrules[k].access_list = pk}

\* Rules of the other type than the submitted one exist for the AccessList.
OtherTypeRulesExist(r) ==
    \/ reqs[r].data.type = TYPE_EXTENDED
         /\ StandardRulesOf(reqs[r].instance) # {}
    \/ reqs[r].data.type = TYPE_STANDARD
         /\ ExtendedRulesOf(reqs[r].instance) # {}

\* The edit changes the type of a ruleless AccessList and nothing but the
\* type check could fail it.
RulelessAndOtherwiseValid(r) ==
    /\ StandardRulesOf(reqs[r].instance) = {}
    /\ ExtendedRulesOf(reqs[r].instance) = {}
    /\ reqs[r].field_errors = {}
    /\ DOMAIN reqs[r].raised \subseteq {"type"}

\* C4, as stated: every edit that changes the type while rules of the other
\* type exist fails with the type-change error on the type field; one that
\* changes the type of a ruleless AccessList and is otherwise valid is
\* accepted.
C4_TypeChangeAlwaysReported ==
    \A r \in Slots :
        TypeChanges(r)
        => /\ OtherTypeRulesExist(r)
                => "type" \in KeysWith(reqs[r].raised, ERR_TYPE_CHANGE)
           /\ RulelessAndOtherwiseValid(r) => reqs[r].phase = "valid"

\* C4, amended: an edit that changes the type while rules of the other type
\* exist fails with the type-change error on the type field provided its
\* name passed field validation and exactly one host field is set (otherwise
\* clean returns, or raises the host error, before it looks at the type);
\* one that changes the type of a ruleless AccessList and is otherwise valid
\* is accepted.
C4_TypeChangeReportedAfterHostChecks ==
    \A r \in Slots :
        TypeChanges(r)
        => /\ ( /\ OtherTypeRulesExist(r)
                /\ reqs[r].data.name # ""
                /\ Cardinality(HostFieldsSet(reqs[r].data)) = 1 )
                => /\ "type" \in KeysWith(reqs[r].raised, ERR_TYPE_CHANGE)
                   /\ reqs[r].phase = "invalid"
           /\ RulelessAndOtherwiseValid(r) => reqs[r].phase = "valid"

C4_Witness ==
    \E r \in Slots :
        /\ TypeChanges(r)
        /\ reqs[r].data.type = TYPE_EXTENDED
        /\ StandardRulesOf(reqs[r].instance) # {}
        /\ reqs[r].raised = ("type" :> <<ERR_TYPE_CHANGE>>)

\* C9: after save, the stored AccessList's assigned_object is the one host
\* field that was set in the submission, and every stored AccessList is
\* assigned to exactly one host, which is a device, a virtual chassis or a
\* virtual machine.
C9_SavedAssignedObjectIsTheHostSet ==
    /\ \A r \in Slots :
          (reqs[r].form = "AccessListForm" /\ reqs[r].phase = "saved")
          => /\ Cardinality(HostFieldsSet(reqs[r].data)) = 1
             /\ \A f \in HostFieldsSet(reqs[r].data) :
                   acls[reqs[r].instance].assigned_object = reqs[r].data[f]
    /\ \A pk \in Pks(acls) : acls[pk].assigned_object \in Hosts

\* An edit that moved a stored AccessList to a virtual machine was saved.
C9_Witness ==
    \E r \in Slots :
        /\ reqs[r].form = "AccessListForm"
        /\ reqs[r].phase = "saved"
        /\ Len(acls) = MaxACLs
        /\ HostFieldsSet(reqs[r].data) = {"virtual_machine"}
        /\ acls[reqs[r].instance].assigned_object \in VirtualMachines

(***************************************************************************)
(* ACLInterfaceAssignmentForm                                              *)
(***************************************************************************)
InterfaceFields == {"interface", "vminterface"}

InterfaceFieldsSet(data) == {f \in InterfaceFields : data[f] # None}

\* The host that owns an interface: the device of a physical interface, the
\* virtual machine of a VM interface.
OwningHost(i) ==
    IF i.kind = "interface" THEN [kind |-> "device", pk |-> i.pk]
    ELSE [kind |-> "virtual_machine", pk |-> i.pk]

\* C5: with both interface fields set, and with neither set, clean fails
\* with its message on the interface and the vminterface field and on
\* nothing else: the host, duplicate and per-direction checks add no key and
\* replace no message, and a blank access_list is not dereferenced.
C5_BothOrNeitherInterface ==
    \A r \in Slots :
        (reqs[r].form = "ACLInterfaceAssignmentForm")
        => /\ InterfaceFieldsSet(reqs[r].data) = InterfaceFields
                => /\ reqs[r].phase = "invalid"
                   /\ reqs[r].raised =
                        [f \in InterfaceFields |-> <<ERR_TOO_MANY_INTERFACES>>]
           /\ InterfaceFieldsSet(reqs[r].data) = {}
                => /\ reqs[r].phase = "invalid"
                   /\ reqs[r].raised =
                        [f \in InterfaceFields |-> <<ERR_NO_INTERFACE>>]

\* Both interfaces are set, the physical one already carries an AccessList
\* in the submitted direction, and the chosen AccessList is on another host.
C5_Witness ==
    \E r \in Slots :
        /\ Cleaned(r, "ACLInterfaceAssignmentForm")
        /\ InterfaceFieldsSet(reqs[r].data) = InterfaceFields
        /\ reqs[r].data.access_list # 0
        /\ acls[reqs[r].data.access_list].assigned_object
             # OwningHost(reqs[r].data.interface)
        /\ \E pk \in Pks(assignments) :
              /\ assignments[pk].assigned_object = reqs[r].data.interface
              /\ assignments[pk].direction = reqs[r].data.direction
        /\ DOMAIN reqs[r].raised = InterfaceFields

\* A submission with exactly one interface and an AccessList chosen.
OneInterface(r) ==
    /\ Cleaned(r, "ACLInterfaceAssignmentForm")
    /\ Cardinality(InterfaceFieldsSet(reqs[r].data)) = 1
    /\ reqs[r].data.access_list # 0

TheInterfaceField(r) ==
    CHOOSE f \in InterfaceFields : reqs[r].data[f] # None

TheHostField(r) ==
    IF TheInterfaceField(r) = "interface" THEN "device" ELSE "virtual_machine"

\* C6: when the interface's host is not the host of the chosen AccessList,
\* the raised error map carries the not-present message on access_list, on
\* the interface field that was set and on the host field, whatever other
\* checks fail.
C6_NotPresentOnAllThreeFields ==
    \A r \in Slots :
        (OneInterface(r)
           /\ OwningHost(reqs[r].data[TheInterfaceField(r)])
                # acls[reqs[r].data.access_list].assigned_object)
        => {"access_list", TheInterfaceField(r), TheHostField(r)}
             \subseteq KeysWith(reqs[r].raised, ERR_ACL_NOT_ASSIGNED_TO_HOST)

\* The stored assignments on the interface and direction of the submission.
StoredOnInterface(r) ==
    {pk \in Pks(assignments) :
        /\ assignments[pk].assigned_object
             = reqs[r].data[TheInterfaceField(r)]
        /\ assignments[pk].direction = reqs[r].data.direction}

C10_AssignmentHostIsAccessListHost ==
    \A pk \in Pks(assignments) :
        OwningHost(assignments[pk].assigned_object)
          = acls[assignments[pk].access_list].assigned_object

(***************************************************************************)
(* The rule forms                                                          *)
(***************************************************************************)
RuleForms == {"ACLStandardRuleForm", "ACLExtendedRuleForm"}

MatchFieldsOf(form) ==
    IF form = "ACLStandardRuleForm" THEN {"source_prefix"}
    ELSE {"source_prefix", "source_ports", "destination_prefix",
          "destination_ports", "protocol"}

MatchFieldsSet(r) ==
    {f \in MatchFieldsOf(reqs[r].form) : reqs[r].data[f] # ""}

\* The fields the rule of the two forms faults.
OffendingFields(r) ==
    IF reqs[r].data.action = "remark"
    THEN (IF reqs[r].data.remark = "" THEN {"remark"} ELSE {})
            \cup MatchFieldsSet(r)
    ELSE IF reqs[r].data.remark # "" THEN {"remark"} ELSE {}

\* C8: clean of either rule form accepts exactly when (action = remark
\* implies a remark and no match field) and (another action implies no
\* remark); when it rejects, the keys of its error map are the offending
\* fields.
C8_RemarkRule ==
    \A r \in Slots :
        (reqs[r].form \in RuleForms)
        => /\ (reqs[r].raised = NoErrors)
                <=> /\ reqs[r].data.action = "remark"
                         => (reqs[r].data.remark # "" /\ MatchFieldsSet(r) = {})
                    /\ reqs[r].data.action # "remark"
                         => reqs[r].data.remark = ""
           /\ DOMAIN reqs[r].raised = OffendingFields(r)

\* An extended remark rule with its remark, faulted for its protocol alone.
C8_Witness ==
    \E r \in Slots :
        /\ Cleaned(r, "ACLExtendedRuleForm")
        /\ reqs[r].data.action = "remark"
        /\ reqs[r].data.remark # ""
        /\ MatchFieldsSet(r) = {"protocol"}
        /\ reqs[r].raised = ("protocol" :> <<ERR_PROTOCOL>>)

(***************************************************************************)
(* Uniqueness of (name, host)                                              *)
(***************************************************************************)
\* The pairs of stored AccessLists with one name on one host.
DuplicateAccessLists ==
    {p \in Pks(acls) \X Pks(acls) :
        /\ p[1] < p[2]
        /\ acls[p[1]].name = acls[p[2]].name
        /\ acls[p[1]].assigned_object = acls[p[2]].assigned_object}

\* C11: with requests handled one at a time, no two stored AccessLists have
\* the same (name, host) pair, whatever creates and edits were accepted.
C11_UniqueNameAndHost ==
    DuplicateAccessLists = {}

\* An accepted edit moved an AccessList to the host of another one, which
\* has the other name.
C11_Witness ==
    \E r \in Slots :
        /\ reqs[r].form = "AccessListForm"
        /\ reqs[r].phase = "saved"
        /\ Len(acls) = MaxACLs
        /\ \E pk \in Pks(acls) :
              /\ pk # reqs[r].instance
              /\ acls[pk].assigned_object = acls[reqs[r].instance].assigned_object
              /\ acls[pk].name # acls[reqs[r].instance].name

(***************************************************************************)
(* Edits of a stored assignment                                            *)
(***************************************************************************)
\* An edit, validated and not yet saved, that submits the interface and the
\* direction the stored assignment has.
KeepsInterfaceAndDirection(r) ==
    /\ reqs[r].form = "ACLInterfaceAssignmentForm"
    /\ reqs[r].phase \in {"valid", "invalid", "error"}
    /\ reqs[r].instance # 0
    /\ Cardinality(InterfaceFieldsSet(reqs[r].data)) = 1
    /\ reqs[r].data[TheInterfaceField(r)]
         = assignments[reqs[r].instance].assigned_object
    /\ reqs[r].data.direction = assignments[reqs[r].instance].direction

\* An edit that passed validation is on an interface and direction that no
\* stored assignment has.
AcceptedEditsMoved ==
    \A r \in Slots :
        (Cleaned(r, "ACLInterfaceAssignmentForm")
           /\ reqs[r].phase = "valid" /\ reqs[r].instance # 0)
        => StoredOnInterface(r) = {}

\* C13, as stated: every edit that keeps the interface and the direction of
\* the stored assignment is rejected with the duplicate and the
\* one-per-direction errors, so an accepted edit has moved to an interface
\* and direction without a stored assignment.
C13_KeptInterfaceGetsBothErrors ==
    /\ \A r \in Slots :
          KeepsInterfaceAndDirection(r)
          => /\ reqs[r].phase = "invalid"
             /\ KeysWith(reqs[r].raised, ERR_DUPLICATE_ENTRY) # {}
             /\ KeysWith(reqs[r].raised, ERR_INTERFACE_ALREADY_ASSIGNED) # {}
    /\ AcceptedEditsMoved

\* C13, amended: an edit that keeps the interface and the direction of the
\* stored assignment is never accepted.  With an access_list chosen it is
\* rejected with the one-per-direction error on direction and on the
\* interface field; the duplicate error is raised too, and is left on
\* access_list, when the edit keeps the access_list as well, and is absent
\* when the edit changes the access_list.  With access_list blank clean ends
\* in an AttributeError and raises no error map.  An accepted edit has moved
\* to an interface and direction without a stored assignment.
C13_KeptInterfaceIsRejected ==
    /\ \A r \in Slots :
          KeepsInterfaceAndDirection(r)
          => IF reqs[r].data.access_list = 0
             THEN reqs[r].phase = "error"
             ELSE /\ reqs[r].phase = "invalid"
                  /\ {"direction", TheInterfaceField(r)} \subseteq
                       KeysWith(reqs[r].raised, ERR_INTERFACE_ALREADY_ASSIGNED)
                  /\ KeysWith(reqs[r].raised, ERR_DUPLICATE_ENTRY) =
                       IF \E pk \in StoredOnInterface(r) :
                             assignments[pk].access_list
                               = reqs[r].data.access_list
                       THEN {"access_list"} ELSE {}
                  /\ reqs[r].data.access_list
                       = assignments[reqs[r].instance].access_list
                       => "access_list" \in
                            KeysWith(reqs[r].raised, ERR_DUPLICATE_ENTRY)
    /\ AcceptedEditsMoved

\* An edit that changes nothing of the stored assignment, rejected.
C13_Witness ==
    \E r \in Slots :
        /\ KeepsInterfaceAndDirection(r)
        /\ reqs[r].data.access_list = assignments[reqs[r].instance].access_list
        /\ reqs[r].raised =
             ("access_list" :> <<ERR_DUPLICATE_ENTRY>>)
               @@ [f \in {"direction", TheInterfaceField(r)}
                     |-> <<ERR_INTERFACE_ALREADY_ASSIGNED>>]

(***************************************************************************)
(* Concurrent submissions                                                  *)
(***************************************************************************)
\* Stored assignments that share one (interface, direction).
DuplicateAssignments ==
    {p \in Pks(assignments) \X Pks(assignments) :
        /\ p[1] < p[2]
        /\ assignments[p[1]].assigned_object = assignments[p[2]].assigned_object
        /\ assignments[p[1]].direction = assignments[p[2]].direction}

\* Both slots hold a submission of the form, in one of the phases.
BothIn(form, phases) ==
    \A r \in Slots : reqs[r].form = form /\ reqs[r].phase \in phases

\* The two slots submit the same (name, host).
SameNameAndHost ==
    /\ reqs[1].data.name = reqs[2].data.name
    /\ AccessListAssignedObject(reqs[1].data)
         = AccessListAssignedObject(reqs[2].data)

\* The two slots submit the same (interface, direction).
SameInterfaceAndDirection ==
    /\ AssignedObject(reqs[1].data) = AssignedObject(reqs[2].data)
    /\ reqs[1].data.direction = reqs[2].data.direction

\* C12: the uniqueness checks are check-then-act.  Two AccessListForm creates
\* of one (name, host) that both ran clean before either ran save both pass
\* validation, provided no stored AccessList has the pair, and once both
\* are saved each has written its own row, so two stored AccessLists share
\* the pair.  The same holds of two ACLInterfaceAssignmentForm creates on one
\* (interface, direction) whose access_list is on the interface's host.
C12_ChecksAreAdvisory ==
    /\ (BothIn("AccessListForm", {"valid", "invalid"}) /\ SameNameAndHost
          /\ StoredMatches(reqs[1].data) = {})
       => BothIn("AccessListForm", {"valid"})
    /\ (BothIn("AccessListForm", {"saved"}) /\ SameNameAndHost)
       => /\ <<reqs[1].instance, reqs[2].instance>> \in Pks(acls) \X Pks(acls)
          /\ reqs[1].instance # reqs[2].instance
          /\ \A r \in Slots :
                acls[reqs[r].instance] = AccessListRow(reqs[r].data)
          /\ DuplicateAccessLists # {}
    /\ (BothIn("ACLInterfaceAssignmentForm", {"valid", "invalid"})
          /\ SameInterfaceAndDirection
          /\ StoredOnInterface(1) = {}
          /\ \A r \in Slots : ~HostMismatch(reqs[r].data))
       => BothIn("ACLInterfaceAssignmentForm", {"valid"})
    /\ (BothIn("ACLInterfaceAssignmentForm", {"saved"})
          /\ SameInterfaceAndDirection)
       => /\ <<reqs[1].instance, reqs[2].instance>>
               \in Pks(assignments) \X Pks(assignments)
          /\ reqs[1].instance # reqs[2].instance
          /\ \A r \in Slots :
                assignments[reqs[r].instance]
                  = ACLInterfaceAssignmentRow(reqs[r].data)
          /\ DuplicateAssignments # {}

\* Both assignment creates are saved on one (interface, direction), over two
\* stored AccessLists of one (name, host).
C12_Witness ==
    /\ BothIn("ACLInterfaceAssignmentForm", {"saved"})
    /\ SameInterfaceAndDirection
    /\ DuplicateAssignments # {}
    /\ DuplicateAccessLists # {}

=============================================================================
